---- MODULE Spec2Model ----
(***************************************************************************)
(* Model of the Tor ControlPort client of tor-fetch (src/unnamed/part_001, *)
(* the TypeScript module at lines 293-580): TorControlPort.send,           *)
(* renewTorSession, attachCommonControlPortErrorDetails, getTorrcLocation  *)
(* and the conditional asynchronous import of net/os/fs/path.              *)
(*                                                                         *)
(* Text is a sequence of units.  A unit is a TLA+ string standing for a    *)
(* fixed run of characters: "250" is the status token, "\n" the line feed, *)
(* HintHead the opening of the remediation text, and so on.  The bytes a   *)
(* peer sends are units too; "C3" and "A9" are the two bytes of the UTF-8  *)
(* encoding of one character, so that Buffer.toString is not the identity. *)
(* Concatenation, split, includes and slice work on these sequences as the *)
(* JavaScript string operations work on characters.                        *)
(***************************************************************************)
EXTENDS Integers, Sequences, FiniteSets, TLC

\* ------------------------------------------------------------------ bounds

\* calls (send or renewTorSession) the caller issues in one run
MaxCalls == 1
\* bytes (units) all peers together deliver in one run
MaxBytes == 2

\* ------------------------------------------------------------------ text

Tok250 == <<"250">>
LF == <<"\n">>
CRLF == <<"\r", "\n">>

\* what a peer can put on the wire: status tokens, line ends, and the two
\* bytes of one non-ASCII character
Bytes == {"250", "515", "\n", "\r", "C3", "A9"}
\* the bytes of the replies the whole-program specification delivers
ReplyBytes == {"250", "515", "\n"}

RECURSIVE Utf8Decode(_)
\* chunk.toString(): UTF-8 decoding of one Buffer on its own; a two-byte
\* character whose bytes are not both in the chunk becomes U+FFFD
Utf8Decode(b) ==
  IF b = <<>> THEN <<>>
  ELSE IF b[1] = "C3"
       THEN IF Len(b) >= 2 /\ b[2] = "A9"
            THEN <<"e-acute">> \o Utf8Decode(SubSeq(b, 3, Len(b)))
            ELSE <<"U+FFFD">> \o Utf8Decode(Tail(b))
       ELSE IF b[1] = "A9"
            THEN <<"U+FFFD">> \o Utf8Decode(Tail(b))
            ELSE <<b[1]>> \o Utf8Decode(Tail(b))

\* String.prototype.includes
Includes(s, t) ==
  \E i \in 0..(Len(s) - Len(t)) : SubSeq(s, i + 1, i + Len(t)) = t

\* index of the first occurrence of the non-empty t in s, 0 when there is none
IndexOf(s, t) ==
  IF Includes(s, t)
  THEN CHOOSE i \in 1..(Len(s) - Len(t) + 1) :
         /\ SubSeq(s, i, i + Len(t) - 1) = t
         /\ \A j \in 1..(i - 1) : SubSeq(s, j, j + Len(t) - 1) # t
  ELSE 0

RECURSIVE Split(_, _)
\* String.prototype.split with a non-empty separator
Split(s, sep) ==
  LET i == IndexOf(s, sep) IN
  IF i = 0 THEN <<s>>
  ELSE <<SubSeq(s, 1, i - 1)>> \o Split(SubSeq(s, i + Len(sep), Len(s)), sep)

\* Array.prototype.slice(0, -1)
SliceDropLast(a) == SubSeq(a, 1, Len(a) - 1)

RECURSIVE Join(_, _)
\* Array.prototype.join
Join(cmds, sep) ==
  IF cmds = <<>> THEN <<>>
  ELSE IF Len(cmds) = 1 THEN cmds[1]
  ELSE cmds[1] \o sep \o Join(Tail(cmds), sep)

RECURSIVE ConcatAll(_)
ConcatAll(ss) == IF ss = <<>> THEN <<>> ELSE ss[1] \o ConcatAll(Tail(ss))

IsPrefix(s, t) == Len(s) <= Len(t) /\ SubSeq(t, 1, Len(s)) = s

\* ------------------------------------------------- messages and the hint

UnavailableMsg == "ControlPort is not available in browser environment"
Preamble == "Error communicating with Tor ControlPort"
SuccessMsg == <<"Tor session successfully renewed!!">>
\* the attachment up to the torrc location, with the question of the hint
HintHead == " - Have you enabled the ControlPort in your torrc file?"
\* the attachment after the torrc location: the guide and the sample torrc
HintTail == "See easy guide here ... Tell tor-request the password to use"
TorrcBrowser == "torrc not available in browser environment"
TorrcNotFound == "torrc not found, specify with tor --default-torrc <PATH>"
\* the value returned for a path of the list that exists (one of six)
TorrcFound == "/etc/tor/torrc ?"

\* getTorrcLocation: the values it can return when n of the modules net,
\* os, fs, path (imported in that order) are loaded; which of the probed
\* files exist is decided by the file system at the moment of the call
TorrcResults(n) ==
  IF n < 4 THEN {TorrcBrowser} ELSE {TorrcFound, TorrcNotFound}

\* the template literal of attachCommonControlPortErrorDetails
Attachment(loc) == <<HintHead, loc, HintTail>>

\* attachCommonControlPortErrorDetails on an Error whose message is msg,
\* getTorrcLocation() returning loc: the new message
AttachControlPortDetails(msg, loc) ==
  IF ~Includes(msg, Attachment(loc)) THEN msg \o Attachment(loc) ELSE msg

\* ------------------------------------------------------------ classifier

ClassifyPrefixOnly(data, eol) ==
  LET lines == SliceDropLast(Split(data, eol)) IN
  \A i \in 1..Len(lines) : Len(lines[i]) <= 0 \/ IsPrefix(Tok250, lines[i])

ClassifyKeepsLast(data, eol) ==
  LET lines == Split(data, eol) IN
  \A i \in 1..Len(lines) : Len(lines[i]) <= 0 \/ Includes(lines[i], Tok250)

\* renewTorSession, lines 568-569: split, slice(0, -1), every
Classify(data, eol) ==
  LET lines == SliceDropLast(Split(data, eol)) IN
  \A i \in 1..Len(lines) : Len(lines[i]) <= 0 \/ Includes(lines[i], Tok250)

\* ------------------------------------------------------------- the state

VARIABLES
  runtime,   \* "browser" (window defined), "posix" or "win32" (Node)
  loaded,    \* how many of net, os, fs, path the async import has assigned
  ctl,       \* TorControlPort: host, port, password
  calls,     \* one record per send / renewTorSession call, in call order
  heap,      \* Error objects: heap[id] is the message of object id
  wire,      \* bytes delivered by peers so far
  http,      \* one record per torfetch call, in call order
  cls        \* a reply and the verdicts renewTorSession reached on it

vars == <<runtime, loaded, ctl, calls, heap, wire, http, cls>>

Runtimes == {"browser", "posix", "win32"}
Passwords == {<<>>, <<"my_secret_password">>}
Batches == {<< <<"getinfo version">>, <<"quit">> >>}

\* os.EOL of the platform
OsEOL == IF runtime = "win32" THEN CRLF ELSE LF

\* the separator of line 568: os.EOL when os is loaded, else the line feed
EolUsed == IF loaded >= 2 THEN OsEOL ELSE LF

RECURSIVE SeqsUpTo(_, _)
SeqsUpTo(S, n) ==
  IF n <= 0 THEN {}
  ELSE SeqsUpTo(S, n - 1) \cup [1..n -> S]

\* --------------------------------------------------------------- send

CommandStringDoubleFeed(commands) == Join(commands, LF) \o LF \o LF

\* line 529: commands.join('\n') + '\n'
CommandString(commands) == Join(commands, LF) \o LF

RenewCommandsNewnymFirst(password) ==
  << <<"signal newnym">>,
     <<"authenticate ", "dquote">> \o password \o <<"dquote">>,
     <<"quit">> >>

\* lines 554-559: the batch of renewTorSession
RenewCommands(password) ==
  << <<"authenticate ", "dquote">> \o password \o <<"dquote">>,
     <<"signal newnym">>,
     <<"quit">> >>

OnDataPrepends(acc, chunk) == Utf8Decode(chunk) \o acc

\* lines 539-541: data += chunk.toString()
OnData(acc, chunk) == acc \o Utf8Decode(chunk)

\* a call that has just been issued; err 0 is null
NewCall(kind, commands) ==
  [kind |-> kind, commands |-> commands, sock |-> "none", peer |-> <<>>,
   written |-> <<>>, chunks |-> <<>>, data |-> <<>>, errors |-> 0,
   sendDone |-> <<>>, renewDone |-> <<>>]

\* the entry renewDone gets for one invocation of the callback of
\* renewTorSession: success is "skipped" when line 569 was not reached,
\* else the value of the variable success
Outcome(err, message, success) ==
  [err |-> err, message |-> message, success |-> success]

RenewCallbackNegated(c, h, err, data, loc) ==
  LET id == Len(h) + 1 IN
  IF err # 0
  THEN [call |-> [c EXCEPT !.renewDone = Append(@, Outcome(err, <<>>, "skipped"))],
        heap |-> [h EXCEPT ![err] = AttachControlPortDetails(@, loc)]]
  ELSE IF Classify(data, EolUsed)
       THEN [call |-> [c EXCEPT !.renewDone = Append(@, Outcome(id, <<>>, "true"))],
             heap |-> Append(h, AttachControlPortDetails(<<Preamble, "\n">> \o data, loc))]
       ELSE [call |-> [c EXCEPT !.renewDone = Append(@, Outcome(0, SuccessMsg, "false"))],
             heap |-> h]

RenewCallbackWrapsError(c, h, err, data, loc) ==
  LET id == Len(h) + 1 IN
  IF err # 0
  THEN [call |-> [c EXCEPT !.renewDone = Append(@, Outcome(id, <<>>, "skipped"))],
        heap |-> Append(h, AttachControlPortDetails(<<Preamble, "\n">> \o h[err], loc))]
  ELSE IF ~Classify(data, EolUsed)
       THEN [call |-> [c EXCEPT !.renewDone = Append(@, Outcome(id, <<>>, "false"))],
             heap |-> Append(h, AttachControlPortDetails(<<Preamble, "\n">> \o data, loc))]
       ELSE [call |-> [c EXCEPT !.renewDone = Append(@, Outcome(0, SuccessMsg, "true"))],
             heap |-> h]

RenewCallbackDropsData(c, h, err, data, loc) ==
  LET id == Len(h) + 1 IN
  IF err # 0
  THEN [call |-> [c EXCEPT !.renewDone = Append(@, Outcome(err, <<>>, "skipped"))],
        heap |-> [h EXCEPT ![err] = AttachControlPortDetails(@, loc)]]
  ELSE IF ~Classify(data, EolUsed)
       THEN [call |-> [c EXCEPT !.renewDone = Append(@, Outcome(id, <<>>, "false"))],
             heap |-> Append(h, AttachControlPortDetails(<<Preamble, "\n">>, loc))]
       ELSE [call |-> [c EXCEPT !.renewDone = Append(@, Outcome(0, SuccessMsg, "true"))],
             heap |-> h]

\* lines 561-579: the callback renewTorSession passes to send, run on call
\* record c and heap h with getTorrcLocation() returning loc.  send always
\* passes a string as data on the null-error path, so the undefined cases
\* of the optional chaining of lines 568-569 do not arise
RenewCallback(c, h, err, data, loc) ==
  LET id == Len(h) + 1 IN
  IF err # 0
  THEN [call |-> [c EXCEPT !.renewDone = Append(@, Outcome(err, <<>>, "skipped"))],
        heap |-> [h EXCEPT ![err] = AttachControlPortDetails(@, loc)]]
  ELSE IF ~Classify(data, EolUsed)
       THEN [call |-> [c EXCEPT !.renewDone = Append(@, Outcome(id, <<>>, "false"))],
             heap |-> Append(h, AttachControlPortDetails(<<Preamble, "\n">> \o data, loc))]
       ELSE [call |-> [c EXCEPT !.renewDone = Append(@, Outcome(0, SuccessMsg, "true"))],
             heap |-> h]

\* done(err, data) of send: the caller's callback for a raw send, the
\* callback of renewTorSession for a renewal
Done(c, h, err, data, loc) ==
  LET c1 == [c EXCEPT !.sendDone = Append(@, [err |-> err, data |-> data])] IN
  IF c.kind = "renew" THEN RenewCallback(c1, h, err, data, loc)
  ELSE [call |-> c1, heap |-> h]

SendStartCompletesAtOnce(c, h, loc) ==
  IF loaded = 0
  THEN Done(c, Append(h, <<UnavailableMsg>>), Len(h) + 1, <<>>, loc)
  ELSE Done([c EXCEPT !.sock = "connecting", !.peer = <<ctl.host, ctl.port>>],
            h, 0, <<>>, loc)

\* lines 520-523 and 525-528 of send, on the fresh call record c
SendStart(c, h, loc) ==
  IF loaded = 0
  THEN Done(c, Append(h, <<UnavailableMsg>>), Len(h) + 1, <<>>, loc)
  ELSE [call |-> [c EXCEPT !.sock = "connecting", !.peer = <<ctl.host, ctl.port>>],
        heap |-> h]

OnEndDropsAccumulator(c, h, loc) ==
  Done([c EXCEPT !.sock = "ended"], h, 0, <<>>, loc)

OnEndForgetsCallback(c, h, loc) ==
  [call |-> [c EXCEPT !.sock = "ended"], heap |-> h]

\* lines 543-545: the end handler
OnEnd(c, h, loc) == Done([c EXCEPT !.sock = "ended"], h, 0, c.data, loc)

OnErrorDefers(c, h, msg, loc1, loc2) ==
  [call |-> [c EXCEPT !.sock = "closed", !.errors = @ + 1],
   heap |-> Append(h, AttachControlPortDetails(<<msg>>, loc1))]

OnErrorReconnects(c, h, msg, loc1, loc2) ==
  Done([c EXCEPT !.sock = "connecting", !.errors = @ + 1],
       Append(h, AttachControlPortDetails(<<msg>>, loc1)), Len(h) + 1, <<>>, loc2)

\* lines 533-536: the error handler, for a new Error object of message msg;
\* loc1 and loc2 are what getTorrcLocation() returns at the attachment of
\* line 534 and at the one of line 563
OnError(c, h, msg, loc1, loc2) ==
  Done([c EXCEPT !.sock = "closed", !.errors = @ + 1],
       Append(h, AttachControlPortDetails(<<msg>>, loc1)), Len(h) + 1, <<>>, loc2)

\* the message of the Error a socket in state s emits
TransportErrorMsg(s) ==
  IF s = "connecting" THEN "connect ECONNREFUSED"
  ELSE IF s = "open" THEN "read ECONNRESET"
  ELSE "write EPIPE"

\* -------------------------------------------------------------- actions

Init ==
  /\ runtime \in Runtimes
  /\ loaded = 0
  /\ ctl = [host |-> "localhost", port |-> 9051, password |-> <<>>]
  /\ calls = <<>>
  /\ heap = <<>>
  /\ wire = 0
  /\ http = <<>>
  /\ cls = [raw |-> <<>>, verdicts |-> {}]

\* lines 304-311: one more of net, os, fs, path is assigned
LoadModule ==
  /\ runtime # "browser"
  /\ loaded < 4
  /\ loaded' = loaded + 1
  /\ UNCHANGED <<runtime, ctl, calls, heap, wire, http, cls>>

\* the caller assigns TorControlPort.password (README, Enabling ControlPort);
\* an assignment made after the last call of the run is read by nothing and
\* is left out
SetPassword ==
  /\ Len(calls) < MaxCalls
  /\ \E pw \in Passwords :
       /\ pw # ctl.password
       /\ ctl' = [ctl EXCEPT !.password = pw]
  /\ UNCHANGED <<runtime, loaded, calls, heap, wire, http, cls>>

\* lines 519-546: TorControlPort.send(commands, done) up to its return
IssueSend ==
  /\ \E commands \in Batches :
       LET r == SendStart(NewCall("send", commands), heap, TorrcBrowser) IN
       /\ calls' = Append(calls, r.call)
       /\ heap' = r.heap
  /\ UNCHANGED <<runtime, loaded, ctl, wire, http, cls>>

\* lines 553-580: renewTorSession(done) up to its return
IssueRenew ==
  /\ \E loc \in TorrcResults(loaded) :
       LET r == SendStart(NewCall("renew", RenewCommands(ctl.password)), heap, loc) IN
       /\ calls' = Append(calls, r.call)
       /\ heap' = r.heap
  /\ UNCHANGED <<runtime, loaded, ctl, wire, http, cls>>

\* the caller calls TorControlPort.send
CallSend == Len(calls) < MaxCalls /\ IssueSend

\* the caller calls renewTorSession
CallRenew == Len(calls) < MaxCalls /\ IssueRenew

SocketConnectDefersWrite(i) ==
  /\ calls[i].sock = "connecting"
  /\ calls' = [calls EXCEPT ![i].sock = "open"]
  /\ UNCHANGED <<runtime, loaded, ctl, heap, wire, http, cls>>

SocketConnectReadsEndpoint(i) ==
  /\ calls[i].sock = "connecting"
  /\ calls' = [calls EXCEPT
       ![i].sock = "open",
       ![i].peer = <<ctl.host, ctl.port>>,
       ![i].written = Append(@, CommandString(
          IF calls[i].kind = "renew" THEN RenewCommands(ctl.password)
          ELSE calls[i].commands))]
  /\ UNCHANGED <<runtime, loaded, ctl, heap, wire, http, cls>>

\* lines 528-531: the connect listener of call i runs
SocketConnect(i) ==
  /\ calls[i].sock = "connecting"
  /\ calls' = [calls EXCEPT ![i].sock = "open",
                            ![i].written = Append(@, CommandString(calls[i].commands))]
  /\ UNCHANGED <<runtime, loaded, ctl, heap, wire, http, cls>>

SocketDataSharedAccumulator(i, B) ==
  /\ calls[i].sock = "open"
  /\ \E chunk \in SeqsUpTo(B, MaxBytes - wire) :
       /\ calls' = [j \in 1..Len(calls) |->
            IF j = i
            THEN [calls[j] EXCEPT !.chunks = Append(@, chunk),
                                  !.data = OnData(@, chunk)]
            ELSE IF calls[j].sock = "open"
                 THEN [calls[j] EXCEPT !.data = OnData(@, chunk)]
                 ELSE calls[j]]
       /\ wire' = wire + Len(chunk)
  /\ UNCHANGED <<runtime, loaded, ctl, heap, http, cls>>

\* the socket of call i emits data with a non-empty chunk of bytes of B
SocketData(i, B) ==
  /\ calls[i].sock = "open"
  /\ \E chunk \in SeqsUpTo(B, MaxBytes - wire) :
       /\ calls' = [calls EXCEPT ![i].chunks = Append(@, chunk),
                                 ![i].data = OnData(@, chunk)]
       /\ wire' = wire + Len(chunk)
  /\ UNCHANGED <<runtime, loaded, ctl, heap, http, cls>>

\* the socket of call i emits end: the peer closed its side; the socket
\* then closes by itself (send listens to no close event) unless it errors
SocketEnd(i) ==
  /\ calls[i].sock = "open"
  /\ \E loc \in TorrcResults(loaded) :
       LET r == OnEnd(calls[i], heap, loc) IN
       /\ calls' = [calls EXCEPT ![i] = r.call]
       /\ heap' = r.heap
  /\ UNCHANGED <<runtime, loaded, ctl, wire, http, cls>>

SocketErrorResetsEndpoint(i) ==
  /\ calls[i].sock \in {"connecting", "open", "ended"}
  /\ \E loc1 \in TorrcResults(loaded), loc2 \in TorrcResults(loaded) :
       LET r == OnError(calls[i], heap, TransportErrorMsg(calls[i].sock), loc1, loc2) IN
       /\ calls' = [calls EXCEPT ![i] = r.call]
       /\ heap' = r.heap
  /\ ctl' = [ctl EXCEPT !.password = <<>>]
  /\ UNCHANGED <<runtime, loaded, wire, http, cls>>

\* the socket of call i emits error and is destroyed: refused before the
\* connection, reset while open, or a failed write or shutdown after end
SocketError(i) ==
  /\ calls[i].sock \in {"connecting", "open", "ended"}
  /\ \E loc1 \in TorrcResults(loaded), loc2 \in TorrcResults(loaded) :
       LET r == OnError(calls[i], heap, TransportErrorMsg(calls[i].sock), loc1, loc2) IN
       /\ calls' = [calls EXCEPT ![i] = r.call]
       /\ heap' = r.heap
  /\ UNCHANGED <<runtime, loaded, ctl, wire, http, cls>>

\* The whole program under the default TorControlPort: up to MaxCalls calls,
\* concurrent or in sequence, the module import and every socket event.
Next ==
  \/ LoadModule
  \/ CallSend
  \/ CallRenew
  \/ \E i \in 1..Len(calls) : SocketConnect(i)
  \/ \E i \in 1..Len(calls) : SocketData(i, ReplyBytes)
  \/ \E i \in 1..Len(calls) : SocketEnd(i)
  \/ \E i \in 1..Len(calls) : SocketError(i)

Spec == Init /\ [][Next]_vars

\* The life of the first call of a run, under either password, its socket
\* delivering any bytes: non-ASCII characters and carriage returns included.
FirstSend == calls = <<>> /\ IssueSend

FirstRenew == calls = <<>> /\ IssueRenew

NextOneCall ==
  \/ LoadModule
  \/ SetPassword
  \/ FirstSend
  \/ FirstRenew
  \/ \E i \in 1..Len(calls) : SocketConnect(i)
  \/ \E i \in 1..Len(calls) : SocketData(i, Bytes)
  \/ \E i \in 1..Len(calls) : SocketEnd(i)
  \/ \E i \in 1..Len(calls) : SocketError(i)

SpecOneCall == Init /\ [][NextOneCall]_vars

\* ---------------------------------------------------------------- claims

CallIds == 1..Len(calls)

\* the question of the remediation hint occurs in msg
HasHint(msg) == \E n \in 1..Len(msg) : msg[n] = HintHead

\* how many times it occurs
HintCount(msg) == Cardinality({n \in 1..Len(msg) : msg[n] = HintHead})

\* every value getTorrcLocation can return
AllTorrcResults == {TorrcBrowser, TorrcFound, TorrcNotFound}

\* the separators line 568 can use in this runtime
Separators == {LF, OsEOL}

\* the text of each chunk, in arrival order
ChunkTexts(chunks) == [n \in 1..Len(chunks) |-> Utf8Decode(chunks[n])]

\* the reply has a line, real or unterminated, that is not empty and does
\* not contain 250
HasBadStatusLine(data) ==
  \E n \in 1..Len(Split(data, LF)) :
    /\ Split(data, LF)[n] # <<>>
    /\ ~Includes(Split(data, LF)[n], Tok250)

\* the errors a call has delivered to its caller
DeliveredErrors(c) ==
  IF c.kind = "send"
  THEN {c.sendDone[k].err : k \in 1..Len(c.sendDone)} \ {0}
  ELSE {c.renewDone[k].err : k \in 1..Len(c.renewDone)} \ {0}

\* C1: the completion callback of a send or of a renewal is invoked at most
\* once, whatever the socket emits.
C1_CallbackAtMostOnce ==
  \A i \in CallIds :
    /\ Len(calls[i].sendDone) <= 1
    /\ Len(calls[i].renewDone) <= 1

\* C2 as stated: on the normal path the RawResponse handed to the callback
\* is a non-empty string.
C2_ResponseNonEmpty ==
  \A i \in CallIds : \A k \in 1..Len(calls[i].sendDone) :
    calls[i].sendDone[k].err = 0 => calls[i].sendDone[k].data # <<>>

\* C2 amended: on the normal path the RawResponse is empty exactly when the
\* peer closed without sending a chunk, and non-empty otherwise.
C2_ResponseEmptyIffNoChunk ==
  \A i \in CallIds : \A k \in 1..Len(calls[i].sendDone) :
    calls[i].sendDone[k].err = 0 =>
      (calls[i].sendDone[k].data = <<>> <=> calls[i].chunks = <<>>)

C2_Witness ==
  \E i \in CallIds :
    /\ calls[i].kind = "send"
    /\ calls[i].written # <<>>
    /\ calls[i].sendDone = <<[err |-> 0, data |-> <<>>]>>

\* C3: at end, send completes with a null error and the concatenation, in
\* arrival order, of the text of every chunk received; the accumulator only
\* grows by appending.
C3_EndDeliversConcatenation ==
  [][\A i \in CallIds :
       /\ IsPrefix(calls[i].data, calls'[i].data)
       /\ (calls[i].sock = "open" /\ calls'[i].sock = "ended") =>
            calls'[i].sendDone =
              Append(calls[i].sendDone,
                     [err |-> 0, data |-> ConcatAll(ChunkTexts(calls[i].chunks))])]_vars

C3_Witness ==
  \E i \in CallIds :
    /\ calls[i].sock = "ended"
    /\ calls[i].chunks = << <<"C3">>, <<"A9">> >>
    /\ calls[i].sendDone = <<[err |-> 0, data |-> <<"U+FFFD", "U+FFFD">>]>>

\* C4: an error event invokes the callback in the same step, with an Error
\* whose message contains the remediation hint.
C4_ErrorCompletesAtOnce ==
  [][\A i \in CallIds :
       calls'[i].errors = calls[i].errors + 1 =>
         /\ Len(calls'[i].sendDone) = Len(calls[i].sendDone) + 1
         /\ LET last == calls'[i].sendDone[Len(calls'[i].sendDone)] IN
            /\ last.err = Len(heap) + 1
            /\ last.err \in DOMAIN heap'
            /\ HasHint(heap'[last.err])]_vars

C4_Witness ==
  \E i \in CallIds :
    /\ calls[i].kind = "send"
    /\ calls[i].errors = 1
    /\ calls[i].written = <<>>
    /\ Len(calls[i].sendDone) = 1
    /\ calls[i].sendDone[1].err # 0
    /\ HasHint(heap[calls[i].sendDone[1].err])

\* C5: when send succeeds and the classifier returns true, the renewal
\* completes with a null error and exactly the success message.
C5_SuccessMessage ==
  \A i \in CallIds : \A k \in 1..Len(calls[i].renewDone) :
    /\ (calls[i].sendDone[k].err = 0
          /\ \A eol \in Separators : Classify(calls[i].sendDone[k].data, eol))
       => calls[i].renewDone[k] = Outcome(0, SuccessMsg, "true")
    /\ calls[i].renewDone[k].success = "true"
       => calls[i].renewDone[k] = Outcome(0, SuccessMsg, "true")

C5_Witness ==
  \E i \in CallIds :
    /\ calls[i].kind = "renew"
    /\ calls[i].data = <<"250", "\n">>
    /\ calls[i].renewDone = <<Outcome(0, SuccessMsg, "true")>>

\* C6: a reply with a status line that does not contain 250, terminated or
\* not, makes the renewal complete with the communication Error.
C6_BadLineFails ==
  \A i \in CallIds : \A k \in 1..Len(calls[i].renewDone) :
    (calls[i].sendDone[k].err = 0 /\ HasBadStatusLine(calls[i].sendDone[k].data))
    => /\ calls[i].renewDone[k].err # 0
       /\ Includes(heap[calls[i].renewDone[k].err], <<Preamble>>)

\* C7: when send succeeds and the classification is false, the renewal
\* completes with a new Error whose message is the preamble, the whole
\* RawResponse and the remediation hint, in that order.
C7_FailureMessage ==
  \A i \in CallIds : \A k \in 1..Len(calls[i].renewDone) :
    LET id == calls[i].renewDone[k].err
        raw == calls[i].sendDone[k].data IN
    /\ (calls[i].sendDone[k].err = 0 /\ \A eol \in Separators : ~Classify(raw, eol))
       => calls[i].renewDone[k].success = "false"
    /\ calls[i].renewDone[k].success = "false" =>
         /\ calls[i].sendDone[k].err = 0
         /\ id \in DOMAIN heap
         /\ \A j \in CallIds : \A m \in 1..Len(calls[j].sendDone) :
              calls[j].sendDone[m].err # id
         /\ \A j \in CallIds : \A m \in 1..Len(calls[j].renewDone) :
              (j # i \/ m # k) => calls[j].renewDone[m].err # id
         /\ \E loc \in AllTorrcResults :
              heap[id] = <<Preamble, "\n">> \o raw \o Attachment(loc)

C7_Witness ==
  \E i \in CallIds :
    /\ calls[i].kind = "renew"
    /\ calls[i].chunks = << <<"515", "\n">> >>
    /\ Len(calls[i].renewDone) = 1
    /\ calls[i].renewDone[1].success = "false"
    /\ heap[calls[i].renewDone[1].err] =
         <<Preamble, "\n", "515", "\n">> \o Attachment(TorrcNotFound)

\* the classifier has run this many times for call c
Classified(c) ==
  Cardinality({k \in 1..Len(c.renewDone) : c.renewDone[k].success # "skipped"})

\* C8, the outcome: a renewal whose send reports a transport error before
\* any end completes with that same Error object, hint attached, without
\* the preamble, and its classifier never runs.
C8_ErrorOutcome ==
  \A i \in CallIds :
    (/\ calls[i].kind = "renew"
     /\ calls[i].errors > 0
     /\ calls[i].sendDone[1].err # 0)
    => /\ calls[i].renewDone = <<Outcome(calls[i].sendDone[1].err, <<>>, "skipped")>>
       /\ HasHint(heap[calls[i].sendDone[1].err])
       /\ ~Includes(heap[calls[i].sendDone[1].err], <<Preamble>>)
       /\ Classified(calls[i]) = 0

\* C8, the state machine: the classifier runs only in the step in which an
\* open socket ends.
C8_ClassifyOnlyOnEnd ==
  \A i \in CallIds :
    Classified(calls'[i]) # Classified(calls[i]) =>
      /\ calls[i].sock = "open"
      /\ calls'[i].sock = "ended"
      /\ Classified(calls'[i]) = Classified(calls[i]) + 1

\* C8: a transport error before any end is propagated as the same Error
\* object, with the hint and without classification; classification is
\* entered only from an awaiting send whose peer closed.
C8_TransportErrorPropagated ==
  [](C8_ErrorOutcome) /\ [][C8_ClassifyOnlyOnEnd]_vars

C8_Witness ==
  \E i \in CallIds :
    /\ calls[i].kind = "renew"
    /\ calls[i].errors = 1
    /\ calls[i].chunks # <<>>
    /\ Len(calls[i].sendDone) = 1
    /\ calls[i].renewDone = <<Outcome(calls[i].sendDone[1].err, <<>>, "skipped")>>
    /\ HasHint(heap[calls[i].sendDone[1].err])

\* C9: however often the hint is attached to one Error object, and whatever
\* getTorrcLocation returns at each attachment, the hint occurs once in the
\* message.
C9_HintOnce ==
  \A id \in DOMAIN heap : HintCount(heap[id]) <= 1

\* C10: every Error delivered to a caller of send or of renewTorSession
\* carries the remediation hint.
C10_EveryErrorHasHint ==
  \A i \in CallIds : \A id \in DeliveredErrors(calls[i]) : HasHint(heap[id])

\* -------------------------------------------------------------- C11 - C13

\* the calls that completed with the Error of line 521
UnavailableCalls ==
  {i \in CallIds : \E id \in DeliveredErrors(calls[i]) :
                     IsPrefix(<<UnavailableMsg>>, heap[id])}

\* C11: in a Node runtime no send or renewal completes with the ControlPort
\* is not available Error; and a call that completes with it opened no
\* socket and wrote nothing.
C11_UnavailableOnlyInBrowser ==
  \A i \in UnavailableCalls :
    /\ runtime = "browser"
    /\ calls[i].sock = "none"
    /\ calls[i].peer = <<>>
    /\ calls[i].written = <<>>

\* the batch a renewal sends under password pw, each command spelled out
ExpectedRenewBatch(pw) ==
  << <<"authenticate ", "dquote">> \o pw \o <<"dquote">>,
     <<"signal newnym">>, <<"quit">> >>

\* the bytes that batch is on the socket
ExpectedRenewPayload(pw) ==
  <<"authenticate ", "dquote">> \o pw \o <<"dquote", "\n">>
    \o <<"signal newnym", "\n", "quit", "\n">>

\* a renewal is issued in this step: its batch is the three commands under
\* the password TorControlPort holds at the call
C12_BatchAtCall ==
  (Len(calls') = Len(calls) + 1 /\ calls'[Len(calls')].kind = "renew")
    => calls'[Len(calls')].commands = ExpectedRenewBatch(ctl.password)

\* what a renewal has written is its batch, once, under one of the passwords
C12_BatchOnSocket ==
  \A i \in CallIds :
    calls[i].kind = "renew" =>
      \E pw \in Passwords :
        /\ calls[i].commands = ExpectedRenewBatch(pw)
        /\ calls[i].written \in {<<>>, <<ExpectedRenewPayload(pw)>>}

\* C12: every renewal sends exactly authenticate "password", signal newnym,
\* quit, in that order, the password being the one of TorControlPort, empty
\* when unset.
C12_RenewalBatch == [](C12_BatchOnSocket) /\ [][C12_BatchAtCall]_vars

C12_Witness ==
  \E i \in CallIds :
    /\ calls[i].kind = "renew"
    /\ ctl.password = <<"my_secret_password">>
    /\ calls[i].written = <<ExpectedRenewPayload(<<"my_secret_password">>)>>

\* the callback of send is invoked in this step only by the end handler of
\* an open socket, by the error handler, or inside the call itself when net
\* is not there
C13_CompletionCause ==
  /\ \A i \in CallIds :
       Len(calls'[i].sendDone) > Len(calls[i].sendDone) =>
         \/ calls[i].sock = "open" /\ calls'[i].sock = "ended"
              /\ calls'[i].errors = calls[i].errors
         \/ calls'[i].errors = calls[i].errors + 1
  /\ Len(calls') = Len(calls) + 1 =>
       LET c == calls'[Len(calls')] IN
       c.sendDone # <<>> => loaded = 0 /\ c.sock = "none"

\* while the socket is connecting or open the callback has not run
C13_PendingWhileOpen ==
  \A i \in CallIds :
    calls[i].sock \in {"connecting", "open"} =>
      calls[i].sendDone = <<>> /\ calls[i].renewDone = <<>>

\* C13: send completes only in reaction to an end or an error event, or at
\* once when the capability is absent; while the peer neither closes nor
\* errors the callback is not invoked, however many data events arrive.
C13_CompletesOnlyOnEndOrError ==
  [](C13_PendingWhileOpen) /\ [][C13_CompletionCause]_vars

C13_Witness ==
  \E i \in CallIds :
    /\ calls[i].sock = "open"
    /\ Len(calls[i].chunks) = MaxBytes
    /\ calls[i].sendDone = <<>>

\* -------------------------------------------------------------- C18 - C19

\* a chunk is appended in this step: the whole batch is on the socket
\* already, and the step writes nothing
C18_ReadAfterWrite ==
  \A i \in CallIds :
    calls'[i].chunks # calls[i].chunks =>
      /\ Len(calls[i].written) = 1
      /\ Split(calls[i].written[1], LF) = calls[i].commands \o << <<>> >>
      /\ calls'[i].written = calls[i].written

\* a write happens in this step: nothing has been read before it
C18_WriteBeforeRead ==
  \A i \in CallIds :
    calls'[i].written # calls[i].written =>
      calls[i].chunks = <<>> /\ calls'[i].chunks = <<>> /\ calls'[i].data = <<>>

\* C18: within one send the complete batch is written before the first
\* chunk is appended to the accumulator, and the write is not interleaved
\* with the reads.
C18_WriteThenRead ==
  [][C18_ReadAfterWrite /\ C18_WriteBeforeRead]_vars

C18_Witness ==
  \E i \in CallIds :
    /\ Len(calls[i].written) = 1
    /\ Len(calls[i].chunks) = 2
    /\ calls[i].sock = "open"

\* the number of characters of a batch
RECURSIVE BatchLen(_)
BatchLen(commands) ==
  IF commands = <<>> THEN 0 ELSE Len(Head(commands)) + BatchLen(Tail(commands))

\* the payload of one write for a batch: each command followed by one line
\* feed, none missing, none doubled
IsPayloadOf(payload, commands) ==
  /\ Split(payload, LF) = commands \o << <<>> >>
  /\ Len(payload) = BatchLen(commands) + Len(commands)

\* writes happen only when the connection is established, one per send
C19_WriteOnConnect ==
  \A i \in CallIds :
    calls'[i].written # calls[i].written =>
      /\ calls[i].sock = "connecting" /\ calls'[i].sock = "open"
      /\ calls[i].written = <<>>
      /\ Len(calls'[i].written) = 1

\* what a send has written, by the state of its socket
C19_WrittenBySocket ==
  \A i \in CallIds :
    /\ calls[i].sock \in {"none", "connecting"} => calls[i].written = <<>>
    /\ calls[i].sock \in {"open", "ended"} => Len(calls[i].written) = 1
    /\ Len(calls[i].written) <= 1
    /\ \A k \in 1..Len(calls[i].written) :
         IsPayloadOf(calls[i].written[k], calls[i].commands)

\* C19: a send whose connection is established performs exactly one write,
\* the commands joined by one line feed plus one trailing line feed; a send
\* whose connection is never established performs none.
C19_ExactlyOneWrite ==
  [](C19_WrittenBySocket) /\ [][C19_WriteOnConnect]_vars

C19_Witness ==
  \E i \in CallIds :
    /\ calls[i].kind = "send"
    /\ calls[i].sock = "ended"
    /\ calls[i].written = << <<"getinfo version", "\n", "quit", "\n">> >>

\* a send refused before the connection wrote nothing
C19_WitnessNoWrite ==
  \E i \in CallIds :
    /\ calls[i].sock = "closed"
    /\ calls[i].errors = 1
    /\ calls[i].written = <<>>

\* ------------------------------------------------------- the HTTP path

\* how many torfetch calls a run makes
MaxFetches == 2

\* lines 341-353: the attachment of attachCommonErrorDetails, a fixed text
HttpHint == "Are you running tor, guide and quickfixes"
HttpAttachment == <<HttpHint>>

\* line 476
AbortedMsg == "Request was aborted"

\* String.prototype.toLowerCase on one unit of text
Lower(u) ==
  CASE u = "Socket Closed" -> "socket closed"
    [] u = "ECONNREFUSED" -> "econnrefused"
    [] u = AbortedMsg -> "request was aborted"
    [] u = HttpHint -> "are you running tor, guide and quickfixes"
    [] OTHER -> u

\* line 340: err.message.toLowerCase()
ToLowerCase(msg) == [n \in 1..Len(msg) |-> Lower(msg[n])]

AttachCommonErrorDetailsAlways(msg) ==
  IF Includes(msg, <<"ECONNREFUSED">>) \/ ToLowerCase(msg) = <<"socket closed">>
  THEN msg \o HttpAttachment
  ELSE msg

\* lines 337-358: attachCommonErrorDetails on an Error whose message is the
\* string msg: the new message
AttachCommonErrorDetails(msg) ==
  IF Includes(msg, <<"ECONNREFUSED">>) \/ ToLowerCase(msg) = <<"socket closed">>
  THEN IF ~Includes(msg, HttpAttachment) THEN msg \o HttpAttachment ELSE msg
  ELSE msg

\* the messages of the Errors the HTTP client rejects with
HttpMessages ==
  { <<"connect ", "ECONNREFUSED", " 127.0.0.1:9050">>,
    <<"ECONNREFUSED">>,
    <<"connect ", "econnrefused">>,
    <<"socket closed">>,
    <<"Socket Closed">>,
    <<"socket closed", " by proxy">>,
    <<"timeout of 1000ms exceeded">>,
    <<>> }

\* lines 474-480: the catch block of torfetch on heap h, the rejection value
\* being object id (0 is null or undefined, which line 338 passes over), and
\* cancel what axios.isCancel says of it
TorfetchCatch(h, id, cancel) ==
  IF cancel THEN [heap |-> Append(h, <<AbortedMsg>>), thrown |-> Len(h) + 1]
  ELSE IF id = 0 THEN [heap |-> h, thrown |-> 0]
  ELSE [heap |-> [h EXCEPT ![id] = AttachCommonErrorDetails(@)], thrown |-> id]

\* a torfetch call awaiting axios (line 472)
NewFetch ==
  [state |-> "pending", rejected |-> 0, cancel |-> FALSE, before |-> <<>>,
   thrown |-> 0, after |-> <<>>]

\* lines 452-472: torfetch(input, init) up to the await
CallTorfetch ==
  /\ Len(http) < MaxFetches
  /\ http' = Append(http, NewFetch)
  /\ UNCHANGED <<runtime, loaded, ctl, calls, heap, wire, cls>>

\* line 473: axios resolved, torfetch returns the Response
AxiosResolves(k) ==
  /\ http[k].state = "pending"
  /\ http' = [http EXCEPT ![k].state = "resolved"]
  /\ UNCHANGED <<runtime, loaded, ctl, calls, heap, wire, cls>>

\* axios rejected call k with object id of heap h: the catch block runs and
\* torfetch throws; before and after are the message of the rejection value
\* when caught and the message of what is thrown
Rejected(k, h, id, cancel) ==
  LET r == TorfetchCatch(h, id, cancel) IN
  /\ http' = [http EXCEPT ![k] =
       [state |-> "thrown", rejected |-> id, cancel |-> cancel,
        before |-> IF id = 0 THEN <<>> ELSE h[id],
        thrown |-> r.thrown,
        after |-> IF r.thrown = 0 THEN <<>> ELSE r.heap[r.thrown]]]
  /\ heap' = r.heap
  /\ UNCHANGED <<runtime, loaded, ctl, calls, wire, cls>>

\* axios rejects with a new Error
AxiosRejectsNew(k) ==
  /\ http[k].state = "pending"
  /\ \E msg \in HttpMessages : Rejected(k, Append(heap, msg), Len(heap) + 1, FALSE)

\* axios rejects with the object it rejected an earlier call with, as the
\* mock of index.test.ts does
AxiosRejectsSame(k) ==
  /\ http[k].state = "pending"
  /\ \E j \in 1..Len(http) :
       /\ http[j].state = "thrown" /\ ~http[j].cancel /\ http[j].rejected # 0
       /\ Rejected(k, heap, http[j].rejected, FALSE)

\* the caller aborted the signal: axios rejects with a new CanceledError
AxiosCancels(k) ==
  /\ http[k].state = "pending"
  /\ Rejected(k, Append(heap, <<"canceled">>), Len(heap) + 1, TRUE)

\* axios rejects with null or undefined
AxiosRejectsNull(k) ==
  /\ http[k].state = "pending"
  /\ Rejected(k, heap, 0, FALSE)

\* The HTTP path: up to MaxFetches torfetch calls and what axios answers.
NextFetch ==
  \/ CallTorfetch
  \/ \E k \in 1..Len(http) : AxiosResolves(k)
  \/ \E k \in 1..Len(http) : AxiosRejectsNew(k)
  \/ \E k \in 1..Len(http) : AxiosRejectsSame(k)
  \/ \E k \in 1..Len(http) : AxiosCancels(k)
  \/ \E k \in 1..Len(http) : AxiosRejectsNull(k)

SpecFetch == Init /\ [][NextFetch]_vars

\* ------------------------------------------------------------------ C14

\* how many times the HTTP hint occurs in a message
HttpHintCount(msg) == Cardinality({n \in 1..Len(msg) : msg[n] = HttpHint})

\* the message contains ECONNREFUSED, or is socket closed in some casing
CallsForHttpHint(msg) ==
  \/ \E n \in 1..Len(msg) : msg[n] = "ECONNREFUSED"
  \/ msg \in {<<"socket closed">>, <<"Socket Closed">>}

\* C14: when axios rejects, a cancellation is thrown as a new Error Request
\* was aborted without the hint; any other rejection value is rethrown as
\* the same object, the hint appended to its message iff the message
\* contains ECONNREFUSED or equals socket closed case-insensitively, and
\* occurring once however often the object is rejected.
C14_HttpRejection ==
  \A k \in 1..Len(http) :
    http[k].state = "thrown" =>
      IF http[k].cancel
      THEN /\ http[k].thrown # http[k].rejected
           /\ http[k].thrown # 0
           /\ \A j \in 1..Len(http) : http[j].rejected # http[k].thrown
           /\ \A j \in 1..Len(http) : j # k => http[j].thrown # http[k].thrown
           /\ http[k].after = <<AbortedMsg>>
           /\ heap[http[k].thrown] = <<AbortedMsg>>
           /\ heap[http[k].rejected] = http[k].before
      ELSE /\ http[k].thrown = http[k].rejected
           /\ HttpHintCount(http[k].after) <= 1
           /\ IF CallsForHttpHint(http[k].before) /\ HttpHintCount(http[k].before) = 0
              THEN http[k].after = http[k].before \o <<HttpHint>>
              ELSE http[k].after = http[k].before

C14_Witness ==
  /\ Len(http) = 2
  /\ http[1].state = "thrown" /\ http[2].state = "thrown"
  /\ http[1].before = <<"Socket Closed">>
  /\ http[2].rejected = http[1].rejected
  /\ http[2].after = <<"Socket Closed", HttpHint>>

\* a cancellation and a refused connection in one run
C14_WitnessCancel ==
  /\ Len(http) = 2
  /\ http[1].cancel /\ http[1].after = <<AbortedMsg>>
  /\ http[2].after = <<"connect ", "ECONNREFUSED", " 127.0.0.1:9050", HttpHint>>

\* ------------------------------------------------------- the classifier

\* the longest reply text classified
MaxRaw == 4

\* the characters of a reply text
RawUnits == {"250", "515", "\n", "\r"}

\* the reply texts
Texts == {<<>>} \cup SeqsUpTo(RawUnits, MaxRaw)

\* a reply text has been accumulated; nothing is classified yet
InitClassify ==
  /\ runtime \in Runtimes
  /\ loaded = 0
  /\ ctl = [host |-> "localhost", port |-> 9051, password |-> <<>>]
  /\ calls = <<>>
  /\ heap = <<>>
  /\ wire = 0
  /\ http = <<>>
  /\ \E raw \in Texts : cls = [raw |-> raw, verdicts |-> {}]

\* lines 568-569 run on the text, in a callback of a send that found net
\* loaded: the separator read and the value of success
RunClassify ==
  /\ loaded >= 1
  /\ LET v == [eol |-> EolUsed, ok |-> Classify(cls.raw, EolUsed)] IN
       /\ v \notin cls.verdicts
       /\ cls' = [cls EXCEPT !.verdicts = @ \cup {v}]
  /\ UNCHANGED <<runtime, loaded, ctl, calls, heap, wire, http>>

\* Lines 568-569 on every reply text of up to MaxRaw characters, at any
\* point of the import of os.
NextClassify ==
  \/ LoadModule
  \/ RunClassify

SpecClassify == InitClassify /\ [][NextClassify]_vars

\* -------------------------------------------------------------- C15 - C17

\* where the separator occurs in a text
SepPositions(s, sep) ==
  {p \in 1..Len(s) : p + Len(sep) - 1 <= Len(s)
                       /\ SubSeq(s, p, p + Len(sep) - 1) = sep}

\* where the line that the separator at p terminates starts
LineStart(s, sep, p) ==
  LET before == {q \in SepPositions(s, sep) : q < p} IN
  IF before = {} THEN 1
  ELSE (CHOOSE q \in before : \A r \in before : r <= q) + Len(sep)

\* the terminated lines of a text: what comes after the last separator is
\* not one of them
TerminatedLines(s, sep) ==
  {SubSeq(s, LineStart(s, sep, p), p - 1) : p \in SepPositions(s, sep)}

C15_WitnessEmpty ==
  /\ cls.raw = <<>>
  /\ \E v \in cls.verdicts : v.ok

\* a text up to and including its last separator
Terminated(s, sep) ==
  IF SepPositions(s, sep) = {} THEN <<>>
  ELSE SubSeq(s, 1, (CHOOSE q \in SepPositions(s, sep) :
                       \A r \in SepPositions(s, sep) : r <= q) + Len(sep) - 1)

\* unterminated final lines
Tails == {<<>>} \cup SeqsUpTo({"250", "515", "\r"}, 2)

C17_VerdictOfTextAlone ==
  \A v \in cls.verdicts : \A w \in cls.verdicts : v.ok = w.ok

\* ------------------------------------------- concurrent calls, one endpoint

\* the hosts and ports a caller points TorControlPort at
Hosts == {"localhost", "tor.internal"}
Ports == {9051, 9151}

\* the caller assigns TorControlPort.password, .host or .port, at any time:
\* before a call, between two calls, or while calls are in flight
AssignEndpoint ==
  /\ \/ \E pw \in Passwords :
          pw # ctl.password /\ ctl' = [ctl EXCEPT !.password = pw]
     \/ \E h \in Hosts : h # ctl.host /\ ctl' = [ctl EXCEPT !.host = h]
     \/ \E p \in Ports : p # ctl.port /\ ctl' = [ctl EXCEPT !.port = p]
  /\ UNCHANGED <<runtime, loaded, calls, heap, wire, http, cls>>

\* the caller makes a second call while the first may be in flight
SecondSend == Len(calls) = 1 /\ IssueSend

SecondRenew == Len(calls) = 1 /\ IssueRenew

\* Two calls, concurrent or in sequence, the caller assigning the endpoint
\* before, between and during them; an assignment made after the second
\* call is read by nothing and is left out.  The peers accept, close or
\* fail without replying: what a call reads from its socket plays no part
\* in what it reads from TorControlPort.
NextEndpoint ==
  \/ LoadModule
  \/ Len(calls) <= 1 /\ AssignEndpoint
  \/ FirstSend
  \/ FirstRenew
  \/ SecondSend
  \/ SecondRenew
  \/ \E i \in 1..Len(calls) : SocketConnect(i)
  \/ \E i \in 1..Len(calls) : SocketEnd(i)
  \/ \E i \in 1..Len(calls) : SocketError(i)

SpecEndpoint == Init /\ [][NextEndpoint]_vars

\* ------------------------------------------------------------------ C20

\* C20 as stated: the endpoint is not snapshotted per call, so a call in
\* flight follows it: a socket that is still connecting is connecting to
\* the host and port TorControlPort holds now, and the renewal it belongs
\* to will authenticate with the password TorControlPort holds now.
C20_InFlightFollowsEndpoint ==
  \A i \in CallIds :
    calls[i].sock = "connecting" =>
      /\ calls[i].peer = <<ctl.host, ctl.port>>
      /\ calls[i].kind = "renew" =>
           calls[i].commands = ExpectedRenewBatch(ctl.password)

\* a call is issued in this step: a renewal takes the password, and a send
\* that connects takes the host and port, that TorControlPort holds at the
\* call
C20_ReadAtCall ==
  Len(calls') = Len(calls) + 1 =>
    LET c == calls'[Len(calls')] IN
    /\ c.kind = "renew" => c.commands = ExpectedRenewBatch(ctl.password)
    /\ c.sock = "connecting" => c.peer = <<ctl.host, ctl.port>>
    /\ c.sock # "connecting" => c.peer = <<>>

\* no later step, an assignment to TorControlPort included, changes what a
\* call in flight connects to or sends
C20_KeptInFlight ==
  \A i \in CallIds :
    /\ calls'[i].commands = calls[i].commands
    /\ calls'[i].peer = calls[i].peer
    /\ calls'[i].written # calls[i].written =>
         /\ Len(calls'[i].written) = 1
         /\ IsPayloadOf(calls'[i].written[1], calls[i].commands)

\* C20, amended: each call reads the endpoint once, inside the call: the
\* password when renewTorSession is called, host and port when send is
\* called; assignments made afterwards reach only later calls.
C20_EndpointReadAtCall == [][C20_ReadAtCall /\ C20_KeptInFlight]_vars

C20_Witness ==
  /\ Len(calls) = 2
  /\ calls[1].kind = "renew" /\ calls[2].kind = "renew"
  /\ calls[1].sock = "open" /\ calls[2].sock = "open"
  /\ calls[1].written = <<ExpectedRenewPayload(<<>>)>>
  /\ calls[2].written = <<ExpectedRenewPayload(<<"my_secret_password">>)>>
  /\ calls[1].peer = <<"localhost", 9051>>
  /\ calls[2].peer = <<"tor.internal", 9151>>
  /\ ctl = [host |-> "tor.internal", port |-> 9151,
            password |-> <<"my_secret_password">>]

\* ------------------------------------------------------------------ C21

\* how far the socket of a call has come
SockRank(sock) ==
  CASE sock = "none" -> 0
    [] sock = "connecting" -> 1
    [] sock = "open" -> 2
    [] sock = "ended" -> 3
    [] sock = "closed" -> 4

\* the call has failed: a transport error, or a reply classified a failure
HasFailed(c) ==
  \/ c.errors > 0
  \/ \E k \in 1..Len(c.renewDone) : c.renewDone[k].success = "false"

\* the socket of a call only moves forward, the call keeps the one peer it
\* connected to, and once it has failed nothing more is connected or written
C21_NoSecondAttempt ==
  \A i \in CallIds :
    /\ SockRank(calls'[i].sock) >= SockRank(calls[i].sock)
    /\ calls'[i].peer = calls[i].peer
    /\ calls[i].sock = "none" => calls'[i].sock = "none"
    /\ calls'[i].commands = calls[i].commands
    /\ HasFailed(calls[i]) =>
         /\ calls'[i].written = calls[i].written
         /\ calls'[i].sock \in {"ended", "closed"}

\* no handler issues a call: a step in which a call appears changes no
\* other call, and the new call has not failed by a transport error
C21_NoReissue ==
  /\ Len(calls') >= Len(calls)
  /\ Len(calls') <= Len(calls) + 1
  /\ Len(calls') = Len(calls) + 1 =>
       \A i \in CallIds : calls'[i] = calls[i]

\* every call has written at most once
C21_OneWrite == \A i \in CallIds : Len(calls[i].written) <= 1

\* C21: a send opens at most one connection and makes a single attempt:
\* after a transport error or a protocol failure nothing reconnects,
\* writes again or issues the batch again, in send or in renewTorSession.
C21_SingleAttempt ==
  [](C21_OneWrite) /\ [][C21_NoSecondAttempt /\ C21_NoReissue]_vars

C21_Witness ==
  \E i \in CallIds :
    /\ calls[i].kind = "renew"
    /\ calls[i].sock = "closed"
    /\ calls[i].errors = 1
    /\ Len(calls[i].renewDone) = 2
    /\ calls[i].renewDone[1].success = "false"
    /\ Len(calls[i].written) = 1

\* ------------------------------------------------ two calls, peers replying

\* Two calls, concurrent or in sequence, under the default TorControlPort,
\* their sockets delivering reply bytes in any interleaving.
NextTwoCalls ==
  \/ LoadModule
  \/ FirstSend
  \/ FirstRenew
  \/ SecondSend
  \/ SecondRenew
  \/ \E i \in 1..Len(calls) : SocketConnect(i)
  \/ \E i \in 1..Len(calls) : SocketData(i, ReplyBytes)
  \/ \E i \in 1..Len(calls) : SocketEnd(i)
  \/ \E i \in 1..Len(calls) : SocketError(i)

SpecTwoCalls == Init /\ [][NextTwoCalls]_vars

\* ------------------------------------------------------------------ C22

\* the characters accumulated by the first n calls together
RECURSIVE AccumulatedUpTo(_)
AccumulatedUpTo(n) ==
  IF n = 0 THEN 0 ELSE Len(calls[n].data) + AccumulatedUpTo(n - 1)

\* the completions of a call that carry an Error
ErrorCompletions(c) == {k \in 1..Len(c.sendDone) : c.sendDone[k].err # 0}

\* what each call accumulated and was handed comes from its own socket
C22_OwnSocketOnly ==
  /\ AccumulatedUpTo(Len(calls)) = wire
  /\ \A i \in CallIds :
       /\ calls[i].data = ConcatAll(ChunkTexts(calls[i].chunks))
       /\ \A k \in 1..Len(calls[i].sendDone) :
            IF calls[i].sendDone[k].err = 0
            THEN /\ calls[i].sendDone[k].data = calls[i].data
                 /\ calls[i].sock \in {"ended", "closed"}
            ELSE calls[i].sendDone[k].data = <<>>
       /\ calls[i].sock # "none" =>
            Cardinality(ErrorCompletions(calls[i])) = calls[i].errors
       /\ Len(calls[i].sendDone) <= 1 + calls[i].errors
       /\ calls[i].kind = "send" => calls[i].renewDone = <<>>
       /\ calls[i].kind = "renew" =>
            Len(calls[i].renewDone) = Len(calls[i].sendDone)
  /\ \A i \in CallIds : \A j \in CallIds :
       i # j => DeliveredErrors(calls[i]) \cap DeliveredErrors(calls[j]) = {}

\* an event reaches one call: no step changes two
C22_OneCallPerEvent ==
  \A i \in CallIds : \A j \in CallIds :
    (i # j /\ calls'[i] # calls[i]) => calls'[j] = calls[j]

\* C22: concurrent sends are isolated: under every interleaving of the
\* events of two sends in flight, what a call accumulates and what its
\* callback is handed consist of the chunks and events of its own socket.
C22_Isolation == [](C22_OwnSocketOnly) /\ [][C22_OneCallPerEvent]_vars

\* two sends in flight together, each holding the reply of its own socket
C22_Witness ==
  /\ Len(calls) = 2
  /\ calls[1].kind = "send" /\ calls[2].kind = "send"
  /\ calls[1].sock = "open" /\ calls[2].sock = "open"
  /\ calls[1].chunks = << <<"515">> >> /\ calls[1].data = <<"515">>
  /\ calls[2].chunks = << <<"250">> >> /\ calls[2].data = <<"250">>

\* both closed by their peers, each handed its own reply
C22_WitnessDelivered ==
  /\ Len(calls) = 2
  /\ calls[1].sendDone = <<[err |-> 0, data |-> <<"515">>]>>
  /\ calls[2].sendDone = <<[err |-> 0, data |-> <<"250">>]>>

\* ------------------------------------------------------------------ C23

\* the transport delivers end or error to the socket of call i while the
\* call awaits it
TransportSettles(i) ==
  /\ i \in 1..Len(calls)
  /\ calls[i].sock \in {"connecting", "open"}
  /\ (SocketEnd(i) \/ SocketError(i))

\* the life of the first call of a run under the default TorControlPort
NextLive ==
  \/ LoadModule
  \/ FirstSend
  \/ FirstRenew
  \/ \E i \in 1..Len(calls) : SocketConnect(i)
  \/ \E i \in 1..Len(calls) : SocketData(i, ReplyBytes)
  \/ \E i \in 1..Len(calls) : SocketEnd(i)
  \/ \E i \in 1..Len(calls) : SocketError(i)

\* That life on a transport that does deliver an end or an error event to a
\* socket that awaits one; Node runs the listener of a delivered event to
\* completion.
SpecLive == Init /\ [][NextLive]_vars /\ WF_vars(TransportSettles(1))

\* call i was issued with net loaded and awaits its socket
Awaiting(i) ==
  i \in 1..Len(calls) /\ calls[i].sock \in {"connecting", "open"}

\* the callback of call i has run, and for a renewal its own callback too,
\* with an Error or with the success message
Completed(i) ==
  /\ i \in 1..Len(calls)
  /\ calls[i].sendDone # <<>>
  /\ calls[i].kind = "renew" =>
       /\ calls[i].renewDone # <<>>
       /\ \/ calls[i].renewDone[1].err # 0
          \/ calls[i].renewDone[1].message = SuccessMsg

\* C23: with the socket capability, if the transport delivers an end or an
\* error event for the socket of a send, the callback of the send is
\* eventually invoked, and a renewal built on it eventually reaches Done.
C23_EventuallyDone == Awaiting(1) ~> Completed(1)

C23_Witness ==
  \E i \in CallIds :
    /\ calls[i].kind = "renew"
    /\ calls[i].sock = "ended"
    /\ calls[i].chunks # <<>>
    /\ Completed(i)

\* ------------------------------------------- one call, the endpoint assigned

\* The life of the first call of a run, its peer replying, the caller
\* assigning password, host and port at any time.
NextFrame ==
  \/ LoadModule
  \/ AssignEndpoint
  \/ FirstSend
  \/ FirstRenew
  \/ \E i \in 1..Len(calls) : SocketConnect(i)
  \/ \E i \in 1..Len(calls) : SocketData(i, ReplyBytes)
  \/ \E i \in 1..Len(calls) : SocketEnd(i)
  \/ \E i \in 1..Len(calls) : SocketError(i)

SpecFrame == Init /\ [][NextFrame]_vars

\* ------------------------------------------------------------------ C24

\* the state of the library: everything but TorControlPort's three fields
LibraryState == <<loaded, calls, heap, wire, http, cls>>

\* C24: no operation of the library modifies the endpoint: a step in which
\* host, port or password changes is an assignment by the caller and
\* nothing else, and every step of send, of renewTorSession, of the hint
\* attachment and of the classification leaves the three as they were, on
\* success and on every error path.
C24_EndpointFrame ==
  [][ /\ LibraryState' # LibraryState => ctl' = ctl
      /\ ctl' # ctl =>
           /\ LibraryState' = LibraryState
           /\ Cardinality({f \in {"host", "port", "password"} :
                             ctl'[f] # ctl[f]}) = 1
           /\ ctl'.host \in Hosts /\ ctl'.port \in Ports
           /\ ctl'.password \in Passwords ]_vars

\* a renewal under an assigned endpoint that failed by the protocol and
\* then by the transport, the endpoint as the caller left it
C24_Witness ==
  /\ ctl = [host |-> "tor.internal", port |-> 9151,
            password |-> <<"my_secret_password">>]
  /\ \E i \in CallIds :
       /\ calls[i].kind = "renew"
       /\ calls[i].peer = <<"tor.internal", 9151>>
       /\ calls[i].errors = 1
       /\ Len(calls[i].renewDone) = 2
       /\ calls[i].renewDone[1].success = "false"

====
